---------------------------- MODULE Spec2Model ----------------------------
(***************************************************************************)
(* A model of the LCATS glue code: the scene-extraction notebook           *)
(* (chunk_text, try_parse_json, extract_scenes_from_text), the retrieval   *)
(* pipeline of the RAG notebook (load_corpus, get_embeddings_for_text,     *)
(* get_embeddings_for_corpus, save/load_embeddings_json,                   *)
(* get_chunks_for_query, retrieve_and_generate) and the shell scripts      *)
(* scripts/publish and scripts/update.                                     *)
(*                                                                         *)
(* Strings are sequences of one-character strings, so that split, join,    *)
(* startswith and endswith are computed and not assumed.                   *)
(***************************************************************************)
EXTENDS Integers, Sequences, FiniteSets, TLC

VARIABLES
    \* ---- chunk_text(text, max_tokens, overlap) ----
    ct_pc,        \* "idle" | "call" | "loop" | "done"
    text,         \* the argument text
    max_tokens,   \* the argument max_tokens
    overlap,      \* the argument overlap
    words,        \* text.split()
    chunks,       \* the list of chunk dicts built so far
    start,        \* the loop variable start
    \* ---- the RAG notebook: the call in progress ----
    entry,        \* the function called from the top level ("none": no call)
    nb_pc,        \* the step the call is at, or "returned" | "raised"
    corpus_with_embeddings,  \* the global list of embedded chunk records
    index,        \* the rows of the faiss.IndexFlatL2 index
    query,        \* the argument query (or text)
    top_n,        \* the argument top_n of get_chunks_for_query
    api_outcome,  \* what client.embeddings.create did in this call
    query_embedding,         \* the local query_embedding
    indices,      \* indices[0] as returned by index.search
    retrieved,    \* the list get_chunks_for_query returns
    context,      \* the local context of elaborate_query_with_context
    prompt,       \* the elaborated query
    result,       \* the value the call returned
    printed,      \* the lines printed
    log,          \* the pipeline steps started, in order
    fs,           \* the files on disk: path -> content
    walk_todo,    \* os.walk: the directories still to yield
    root,         \* os.walk: the directory being listed
    files,        \* os.walk: the names in root not yet iterated over
    corpus,       \* the list load_corpus builds
    \* ---- scripts/publish and scripts/update ----
    script,       \* the script running ("none": no script)
    sh_pc,        \* the line the shell is at, or "done"
    xtrace,       \* whether set -x is in effect
    stdout,       \* the lines written to standard output
    stderr,       \* the commands traced to standard error
    dist,         \* ./dist: "absent", "file" or "dir"
    dist_files,   \* the names in ./dist
    uploaded,     \* the files handed to twine for upload
    conda_ok,     \* whether conda env export works
    conda_export, \* the lines conda env export writes
    environment_yml,  \* environment.yml: whether it exists, and its lines
    \* ---- the scene-extraction notebook: the call in progress ----
    scene_entry,  \* the function called from the top level ("none": no call)
    scene_pc,     \* "idle" | "call" | "loop" | "returned" | "raised"
    output,       \* the argument output of try_parse_json
    scene_text,   \* the argument text of extract_scenes_from_text
    scene_chunks, \* its local chunks
    chunk_no,     \* the number of chunks the for loop is done with
    api_calls,    \* the calls made to the chat model: messages sent, outcome
    all_scenes,   \* its local all_scenes
    scene_result, \* the value the call returned, or the exception it raised
    \* ---- the RAG notebook: the loops of get_embeddings_for_corpus ----
    entry_no,     \* the number of corpus entries the outer loop is done with
    entry_chunks, \* the local chunks: the chunks of the current entry
    chunk_pos,    \* the number of chunks the inner loop is done with
    embed_calls   \* the calls of get_embeddings_for_text: text, API outcome

chunkVars == <<ct_pc, text, max_tokens, overlap, words, chunks, start>>

ragVars == <<entry, nb_pc, corpus_with_embeddings, index, query, top_n, api_outcome,
             query_embedding, indices, retrieved, context, prompt, result, printed, log>>

fileVars == <<fs, walk_todo, root, files, corpus>>

scriptVars == <<script, sh_pc, xtrace, stdout, stderr, dist, dist_files, uploaded,
                conda_ok, conda_export, environment_yml>>

sceneVars == <<scene_entry, scene_pc, output, scene_text, scene_chunks, chunk_no,
               api_calls, all_scenes, scene_result>>

embedVars == <<entry_no, entry_chunks, chunk_pos, embed_calls>>

vars == <<chunkVars, ragVars, fileVars, scriptVars, sceneVars, embedVars>>

\* what a step of chunk_text leaves alone
notChunkVars == <<ragVars, fileVars, scriptVars, sceneVars, embedVars>>

\* what a step of a RAG call leaves alone
notRagVars == <<chunkVars, fileVars, scriptVars, sceneVars, embedVars>>

\* what a step of a script leaves alone
notScriptVars == <<chunkVars, ragVars, fileVars, sceneVars, embedVars>>

\* what a step of the scene-extraction calls leaves alone
notSceneVars == <<chunkVars, ragVars, fileVars, scriptVars, embedVars>>

-----------------------------------------------------------------------------
(* Bounds of the model *)

MaxTextLen == 5

MaxTokens == 3

MaxChunks == 4

MaxCorpus == 3

MaxTopN == 3

MaxFiles == 2

MaxRecords == 2

MaxLines == 3

\* the depth of arrays and objects at which the json scanner raises
\* RecursionError (sys.getrecursionlimit(), scaled to the model)
RecursionLimit == 4

\* the digits int() accepts (sys.get_int_max_str_digits(), scaled)
IntMaxStrDigits == 4

\* the longest output handed to try_parse_json
MaxOutputLen == 5

\* the most entries of a corpus handed to get_embeddings_for_corpus
MaxEntries == 2

\* the defaults max_tokens = 800 and overlap = 100 of chunk_text, scaled to
\* the texts of the model
DefaultMaxTokens == 2

DefaultOverlap == 1

-----------------------------------------------------------------------------
(* Python built-ins used by the code *)

Min(a, b) == IF a < b THEN a ELSE b

Max(a, b) == IF a > b THEN a ELSE b

Chars == {"a", " ", "\n"}

IsSpace(c) == c \in {" ", "\n", "\t"}

\* seq[lo:hi] with Python's treatment of negative and out-of-range indices
PySlice(s, lo, hi) ==
    LET n == Len(s)
        Norm(i) == IF i < 0 THEN Max(i + n, 0) ELSE Min(i, n)
        a == Norm(lo)
        b == Norm(hi)
    IN  IF a >= b THEN <<>> ELSE SubSeq(s, a + 1, b)

\* str.split() without arguments: the maximal runs of non-whitespace
RECURSIVE SplitFrom(_, _, _, _)
SplitFrom(s, i, cur, acc) ==
    IF i > Len(s)
    THEN IF cur = <<>> THEN acc ELSE Append(acc, cur)
    ELSE IF IsSpace(s[i])
         THEN SplitFrom(s, i + 1, <<>>, IF cur = <<>> THEN acc ELSE Append(acc, cur))
         ELSE SplitFrom(s, i + 1, Append(cur, s[i]), acc)

Split(s) == SplitFrom(s, 1, <<>>, <<>>)

\* sep.join(parts)
RECURSIVE Join(_, _)
Join(sep, parts) ==
    IF parts = <<>> THEN <<>>
    ELSE IF Len(parts) = 1 THEN parts[1]
    ELSE parts[1] \o sep \o Join(sep, Tail(parts))

Texts == UNION {[1..n -> Chars] : n \in 0..MaxTextLen}

-----------------------------------------------------------------------------
(* Python values, and json.dump / json.load on them *)

\* A Python value is a record [t, v]: t its type, v a sequence holding its
\* content. A str is a sequence of characters; a dict is the sequence of its
\* <<key, value>> pairs in insertion order, the keys being strs.
PyNone == [t |-> "None", v |-> <<>>]

PyNum(n) == [t |-> "num", v |-> <<n>>]

PyStr(s) == [t |-> "str", v |-> s]

PyList(xs) == [t |-> "list", v |-> xs]

PyDict(kvs) == [t |-> "dict", v |-> kvs]

IsNone(x) == x.t = "None"

\* d[key] for a dict d that has the key (the last pair wins)
DictGet(d, key) ==
    LET i == CHOOSE k \in 1..Len(d.v) :
                 /\ d.v[k][1] = key
                 /\ \A m \in (k + 1)..Len(d.v) : d.v[m][1] # key
    IN  d.v[i][2]

DictKeys(d) == {d.v[i][1] : i \in 1..Len(d.v)}

Digits == <<"0", "1", "2", "3", "4", "5", "6", "7", "8", "9">>

IsDigit(c) == \E d \in 1..Len(Digits) : Digits[d] = c

DigitVal(c) == (CHOOSE d \in 1..Len(Digits) : Digits[d] = c) - 1

RECURSIVE EncodeNat(_)
EncodeNat(n) ==
    IF n < 10 THEN <<Digits[n + 1]>>
    ELSE EncodeNat(n \div 10) \o <<Digits[(n % 10) + 1]>>

EncodeInt(n) == IF n < 0 THEN <<"-">> \o EncodeNat(-n) ELSE EncodeNat(n)

\* json's escaping of one character of a str (ensure_ascii=True)
EscapeChar(c) ==
    CASE c = "\"" -> <<"\\", "\"">>
      [] c = "\\" -> <<"\\", "\\">>
      [] c = "\n" -> <<"\\", "n">>
      [] c = "U+00E9" -> <<"\\", "u", "0", "0", "e", "9">>
      [] OTHER -> <<c>>

RECURSIVE EscapeStr(_)
EscapeStr(s) == IF s = <<>> THEN <<>> ELSE EscapeChar(Head(s)) \o EscapeStr(Tail(s))

EncodeStr(s) == <<"\"">> \o EscapeStr(s) \o <<"\"">>

\* (mutant: None is written as the string "None")
EncodeNoneAsStr == EncodeStr(<<"N", "o", "n", "e">>)

\* json's text for None
EncodeNone == <<"n", "u", "l", "l">>

\* json.dumps(x) with the default separators ', ' and ': '
RECURSIVE JsonDumps(_)
JsonDumps(x) ==
    CASE x.t = "None" -> EncodeNone
      [] x.t = "num"  -> EncodeInt(x.v[1])
      [] x.t = "str"  -> EncodeStr(x.v)
      [] x.t = "list" ->
            <<"[">> \o Join(<<",", " ">>, [i \in 1..Len(x.v) |-> JsonDumps(x.v[i])]) \o <<"]">>
      [] x.t = "dict" ->
            <<"{">> \o Join(<<",", " ">>,
                            [i \in 1..Len(x.v) |->
                                EncodeStr(x.v[i][1]) \o <<":", " ">> \o JsonDumps(x.v[i][2])])
                    \o <<"}">>

\* the result of a parsing step: the value read and the position after it,
\* or the exception raised (err)
ParseFail == [ok |-> FALSE, val |-> PyNone, pos |-> 0, err |-> "JSONDecodeError"]

\* the scanner's recursion guard fired on entering an array or an object
ParseTooDeep == [ok |-> FALSE, val |-> PyNone, pos |-> 0, err |-> "RecursionError"]

\* int() refused a run of digits longer than sys.get_int_max_str_digits()
ParseTooLong == [ok |-> FALSE, val |-> PyNone, pos |-> 0, err |-> "ValueError"]

ParseOk(val, pos) == [ok |-> TRUE, val |-> val, pos |-> pos, err |-> ""]

RECURSIVE SkipWs(_, _)
SkipWs(s, i) ==
    IF i <= Len(s) /\ s[i] \in {" ", "\n", "\t", "\r"} THEN SkipWs(s, i + 1) ELSE i

\* the body of a JSON string from position i to its closing quote
RECURSIVE ScanStr(_, _, _)
ScanStr(s, i, acc) ==
    IF i > Len(s) THEN ParseFail
    ELSE IF s[i] = "\"" THEN ParseOk(PyStr(acc), i + 1)
    ELSE IF s[i] = "\\"
         THEN IF i + 1 > Len(s) THEN ParseFail
              ELSE CASE s[i + 1] = "\"" -> ScanStr(s, i + 2, Append(acc, "\""))
                     [] s[i + 1] = "\\" -> ScanStr(s, i + 2, Append(acc, "\\"))
                     [] s[i + 1] = "n"  -> ScanStr(s, i + 2, Append(acc, "\n"))
                     [] s[i + 1] = "u"  ->
                            IF i + 5 <= Len(s) /\ SubSeq(s, i + 2, i + 5) = <<"0", "0", "e", "9">>
                            THEN ScanStr(s, i + 6, Append(acc, "U+00E9"))
                            ELSE ParseFail
                     [] OTHER -> ParseFail
    ELSE IF s[i] \in {"\n", "\t", "\r"} THEN ParseFail  \* strict: no raw control character
    ELSE ScanStr(s, i + 1, Append(acc, s[i]))

RECURSIVE ScanNat(_, _, _)
ScanNat(s, i, acc) ==
    IF i <= Len(s) /\ IsDigit(s[i])
    THEN ScanNat(s, i + 1, acc * 10 + DigitVal(s[i]))
    ELSE ParseOk(PyNum(acc), i)

ScanNumber(s, i) ==
    IF s[i] = "-"
    THEN IF i + 1 <= Len(s) /\ IsDigit(s[i + 1])
         THEN LET r == ScanNat(s, i + 1, 0)
              IN  IF r.pos - (i + 1) > IntMaxStrDigits THEN ParseTooLong
                  ELSE ParseOk(PyNum(-(r.val.v[1])), r.pos)
         ELSE ParseFail
    ELSE LET r == ScanNat(s, i, 0)
         IN  IF r.pos - i > IntMaxStrDigits THEN ParseTooLong ELSE r

RECURSIVE ParseValue(_, _, _)
RECURSIVE ParseElems(_, _, _, _)
RECURSIVE ParseMembers(_, _, _, _)

\* the JSON value that starts at position i (after whitespace), d arrays and
\* objects deep
ParseValue(s, i, d) ==
    LET j == SkipWs(s, i)
    IN  IF j > Len(s) THEN ParseFail
        ELSE CASE s[j] = "n" ->
                    IF j + 3 <= Len(s) /\ SubSeq(s, j, j + 3) = <<"n", "u", "l", "l">>
                    THEN ParseOk(PyNone, j + 4)
                    ELSE ParseFail
               [] s[j] = "\"" -> ScanStr(s, j + 1, <<>>)
               [] s[j] = "[" ->
                    LET k == SkipWs(s, j + 1)
                    IN  IF d >= RecursionLimit THEN ParseTooDeep
                        ELSE IF k <= Len(s) /\ s[k] = "]"
                        THEN ParseOk(PyList(<<>>), k + 1)
                        ELSE ParseElems(s, j + 1, <<>>, d + 1)
               [] s[j] = "{" ->
                    LET k == SkipWs(s, j + 1)
                    IN  IF d >= RecursionLimit THEN ParseTooDeep
                        ELSE IF k <= Len(s) /\ s[k] = "}"
                        THEN ParseOk(PyDict(<<>>), k + 1)
                        ELSE ParseMembers(s, j + 1, <<>>, d + 1)
               [] s[j] = "-" \/ IsDigit(s[j]) -> ScanNumber(s, j)
               [] OTHER -> ParseFail

\* the elements of a JSON array from position i to its closing bracket
ParseElems(s, i, acc, d) ==
    LET r == ParseValue(s, i, d)
    IN  IF ~r.ok THEN r
        ELSE LET k == SkipWs(s, r.pos)
             IN  IF k > Len(s) THEN ParseFail
                 ELSE IF s[k] = "," THEN ParseElems(s, k + 1, Append(acc, r.val), d)
                 ELSE IF s[k] = "]" THEN ParseOk(PyList(Append(acc, r.val)), k + 1)
                 ELSE ParseFail

\* the members of a JSON object from position i to its closing brace
ParseMembers(s, i, acc, d) ==
    LET j == SkipWs(s, i)
    IN  IF j > Len(s) \/ s[j] # "\"" THEN ParseFail
        ELSE LET key == ScanStr(s, j + 1, <<>>)
             IN  IF ~key.ok THEN ParseFail
                 ELSE LET c == SkipWs(s, key.pos)
                      IN  IF c > Len(s) \/ s[c] # ":" THEN ParseFail
                          ELSE LET r == ParseValue(s, c + 1, d)
                               IN  IF ~r.ok THEN r
                                   ELSE LET k    == SkipWs(s, r.pos)
                                            acc2 == Append(acc, <<key.val.v, r.val>>)
                                        IN  IF k > Len(s) THEN ParseFail
                                            ELSE IF s[k] = "," THEN ParseMembers(s, k + 1, acc2, d)
                                            ELSE IF s[k] = "}" THEN ParseOk(PyDict(acc2), k + 1)
                                            ELSE ParseFail

\* json.loads(s): the whole text is one value; ok = FALSE is an exception,
\* named by err
JsonLoads(s) ==
    LET r == ParseValue(s, 1, 0)
    IN  IF ~r.ok THEN r
        ELSE IF SkipWs(s, r.pos) > Len(s) THEN r ELSE ParseFail

-----------------------------------------------------------------------------
(* The RAG notebook: embeddings, the vector index, retrieval and generation *)

K_text == <<"t", "e", "x", "t">>

K_embedding == <<"e", "m", "b", "e", "d", "d", "i", "n", "g">>

K_metadata == <<"m", "e", "t", "a", "d", "a", "t", "a">>

\* a vector of numbers as a Python list, and back
PyVec(v) == PyList([i \in 1..Len(v) |-> PyNum(v[i])])

VecOf(x) == [i \in 1..Len(x.v) |-> x.v[i].v[1]]

\* the embedding vectors the model draws from (the real ones have 1536 floats)
Vectors == {<<0, 0>>, <<1, 0>>, <<0, 2>>}

\* the text of the chunk stored at row i (from 0): every chunk has its own
ChunkTextAt(i) == <<"t", Digits[i + 1]>>

ChunkRecord(txt, emb) ==
    PyDict(<< <<K_text, PyStr(txt)>>,
              <<K_embedding, emb>>,
              <<K_metadata, PyDict(<< <<<<"n", "a", "m", "e">>, PyStr(<<"s">>)>> >>)>> >>)

\* the corpora with every chunk embedded, as the index cell requires
Corpora ==
    UNION {{[i \in 1..n |-> ChunkRecord(ChunkTextAt(i - 1), PyVec(f[i]))] : f \in [1..n -> Vectors]}
           : n \in 1..MaxCorpus}

Queries == {<<"c", "a", "t", "?">>, <<"a", " ", "\"", "b", "\"">>}

\* what client.embeddings.create(input=text, ...) can do: raise an error (the
\* client's errors all derive from Exception) or return a response whose
\* data holds the embeddings
EmbeddingOutcomes ==
    {[raises |-> TRUE, exc |-> e, data |-> <<>>] : e \in {"APIConnectionError", "RateLimitError"}}
    \cup {[raises |-> FALSE, exc |-> "", data |-> d] :
            d \in {<<>>} \cup {<<PyVec(v)>> : v \in Vectors} \cup {<<PyVec(<<1, 0>>), PyVec(<<0, 2>>)>>}}

\* what client.chat.completions.create can do
CompletionOutcomes ==
    {[raises |-> TRUE, exc |-> "APIConnectionError", content |-> <<>>],
     [raises |-> FALSE, exc |-> "", content |-> <<"o", "k">>]}

\* (mutant: the handler names one error class)
HandlerCatchesConnectionOnly(exc) == exc = "APIConnectionError"

\* except Exception: the classes the handler of get_embeddings_for_text catches
HandlerCatches(exc) == exc \in {"APIConnectionError", "RateLimitError", "IndexError"}

\* get_embeddings_for_text(text) when the API call does `o`: the value returned,
\* the exception that leaves the function ("" for none) and the lines printed
GetEmbeddingsForText(o) ==
    LET thrown == IF o.raises THEN o.exc
                  ELSE IF o.data = <<>> THEN "IndexError"   \* response.data[0]
                  ELSE ""
    IN  IF thrown = ""
        THEN [ret |-> o.data[1], raised |-> "", printed |-> <<>>]
        ELSE IF HandlerCatches(thrown)
        THEN [ret |-> PyNone, raised |-> "",
              printed |-> << <<"Error generating embedding: ", thrown>> >>]
        ELSE [ret |-> PyNone, raised |-> thrown, printed |-> <<>>]

\* embeddings = np.array([item['embedding'] ...]); index.add(embeddings)
BuildIndex(records) == [i \in 1..Len(records) |-> VecOf(DictGet(records[i], K_embedding))]

\* the squared L2 distance IndexFlatL2 ranks by
RECURSIVE SqDistFrom(_, _, _)
SqDistFrom(a, b, i) ==
    IF i > Len(a) THEN 0 ELSE (a[i] - b[i]) * (a[i] - b[i]) + SqDistFrom(a, b, i + 1)

L2(a, b) == SqDistFrom(a, b, 1)

\* index.search(np.array([q]), k): the labels (row numbers from 0) of the k
\* nearest rows, nearest first, ties in any order, padded with -1 when the
\* index has fewer than k rows
FaissSearch(rows, q, k) ==
    LET n == Len(rows)
        m == Min(k, n)
        ranked == {r \in [1..m -> 0..(n - 1)] :
                     /\ \A a, b \in 1..m : a < b => r[a] # r[b]
                     /\ \A a, b \in 1..m : a < b => L2(rows[r[a] + 1], q) <= L2(rows[r[b] + 1], q)
                     /\ \A x \in 0..(n - 1) :
                            (\A a \in 1..m : r[a] # x) =>
                                \A a \in 1..m : L2(rows[r[a] + 1], q) <= L2(rows[x + 1], q)}
    IN  {[i \in 1..k |-> IF i <= m THEN r[i] ELSE -1] : r \in ranked}

\* lst[i] for a Python list and an index that may be negative
PyIndex(lst, i) == IF i < 0 THEN lst[Len(lst) + i + 1] ELSE lst[i + 1]

\* (mutant: every label is read one row further)
SelectChunksShifted(records, ind) ==
    [k \in 1..Len(ind) |-> PyIndex(records, (ind[k] + 1) % Len(records))]

\* [corpus_with_embeddings[i] for i in indices[0]]
SelectChunks(records, ind) == [k \in 1..Len(ind) |-> PyIndex(records, ind[k])]

\* generate_context_from_chunks
GenerateContextFromChunks(cs) ==
    Join(<<"\n">>, [k \in 1..Len(cs) |-> DictGet(cs[k], K_text).v])

\* generate_prompt_from_query_and_context
GeneratePromptFromQueryAndContext(q, ctx) ==
    <<"C", "o", "n", "t", "e", "x", "t", ":", "\n">> \o ctx \o <<"\n", "\n", "Q", "u", "e", "s", "t", "i", "o", "n", ":", " ">> \o q \o <<"\n", "A", "n", "s", "w", "e", "r", ":">>

\* the default of top_n
DefaultTopN == 5

\* (mutant: the prompt is assembled without building the context)
AfterGetChunksSkipJoin(e) == IF e = "retrieve_and_generate" THEN "prompt" ELSE "returned"

\* where get_chunks_for_query returns to: the top level, or
\* elaborate_query_with_context, which goes on to build the context
AfterGetChunks(e) == IF e = "retrieve_and_generate" THEN "join" ELSE "returned"

RagIdle ==
    /\ entry = "none"
    /\ nb_pc = "idle"
    /\ corpus_with_embeddings = <<>>
    /\ index = <<>>
    /\ query = <<>>
    /\ top_n = 0
    /\ api_outcome = [raises |-> FALSE, exc |-> "", data |-> <<>>]
    /\ query_embedding = PyNone
    /\ indices = <<>>
    /\ retrieved = <<>>
    /\ context = <<>>
    /\ prompt = <<>>
    /\ result = PyNone
    /\ printed = <<>>
    /\ log = <<>>

\* a call of get_embeddings_for_text, get_chunks_for_query or
\* retrieve_and_generate is about to start
RagInit ==
    /\ entry \in {"get_embeddings_for_text", "get_chunks_for_query", "retrieve_and_generate"}
    /\ nb_pc = "embed"
    /\ query \in Queries
    /\ IF entry = "get_embeddings_for_text"
       THEN corpus_with_embeddings = <<>> /\ top_n = 0
       ELSE /\ corpus_with_embeddings \in Corpora
            /\ IF entry = "retrieve_and_generate"
               THEN top_n = DefaultTopN
               ELSE top_n \in 1..MaxTopN
    /\ index = BuildIndex(corpus_with_embeddings)
    /\ api_outcome = [raises |-> FALSE, exc |-> "", data |-> <<>>]
    /\ query_embedding = PyNone
    /\ indices = <<>>
    /\ retrieved = <<>>
    /\ context = <<>>
    /\ prompt = <<>>
    /\ result = PyNone
    /\ printed = <<>>
    /\ log = <<>>

\* get_embeddings_for_text(query)
EmbedStep ==
    /\ nb_pc = "embed"
    /\ \E o \in EmbeddingOutcomes :
        LET r == GetEmbeddingsForText(o)
        IN  /\ api_outcome' = o
            /\ printed' = printed \o r.printed
            /\ log' = Append(log, "embed")
            /\ IF r.raised # ""
               THEN nb_pc' = "raised" /\ UNCHANGED <<query_embedding, result>>
               ELSE IF entry = "get_embeddings_for_text"
               THEN nb_pc' = "returned" /\ result' = r.ret /\ UNCHANGED query_embedding
               ELSE nb_pc' = "search" /\ query_embedding' = r.ret /\ UNCHANGED result
    /\ UNCHANGED <<entry, corpus_with_embeddings, index, query, top_n, indices, retrieved,
                   context, prompt>>
    /\ UNCHANGED notRagVars

\* _, indices = index.search(np.array([query_embedding]), top_n); the array of
\* [None] is not a matrix of floats and the search raises
SearchStep ==
    /\ nb_pc = "search"
    /\ log' = Append(log, "search")
    /\ IF IsNone(query_embedding)
       THEN nb_pc' = "raised" /\ UNCHANGED indices
       ELSE /\ indices' \in FaissSearch(index, VecOf(query_embedding), top_n)
            /\ nb_pc' = "select"
    /\ UNCHANGED <<entry, corpus_with_embeddings, index, query, top_n, api_outcome,
                   query_embedding, retrieved, context, prompt, result, printed>>
    /\ UNCHANGED notRagVars

\* return [corpus_with_embeddings[i] for i in indices[0]]
SelectStep ==
    /\ nb_pc = "select"
    /\ retrieved' = SelectChunks(corpus_with_embeddings, indices)
    /\ nb_pc' = AfterGetChunks(entry)
    /\ result' = IF nb_pc' = "returned" THEN PyList(retrieved') ELSE result
    /\ UNCHANGED <<entry, corpus_with_embeddings, index, query, top_n, api_outcome,
                   query_embedding, indices, context, prompt, printed, log>>
    /\ UNCHANGED notRagVars

\* context = generate_context_from_chunks(chunks)
JoinStep ==
    /\ nb_pc = "join"
    /\ context' = GenerateContextFromChunks(retrieved)
    /\ log' = Append(log, "join")
    /\ nb_pc' = "prompt"
    /\ UNCHANGED <<entry, corpus_with_embeddings, index, query, top_n, api_outcome,
                   query_embedding, indices, retrieved, prompt, result, printed>>
    /\ UNCHANGED notRagVars

\* return generate_prompt_from_query_and_context(query, context)
PromptStep ==
    /\ nb_pc = "prompt"
    /\ prompt' = GeneratePromptFromQueryAndContext(query, context)
    /\ log' = Append(log, "prompt")
    /\ nb_pc' = "complete"
    /\ UNCHANGED <<entry, corpus_with_embeddings, index, query, top_n, api_outcome,
                   query_embedding, indices, retrieved, context, result, printed>>
    /\ UNCHANGED notRagVars

\* return generate_completions(elaborated_query): no handler around the call
CompleteStep ==
    /\ nb_pc = "complete"
    /\ log' = Append(log, "complete")
    /\ \E o \in CompletionOutcomes :
        IF o.raises
        THEN nb_pc' = "raised" /\ UNCHANGED result
        ELSE nb_pc' = "returned" /\ result' = PyStr(o.content)
    /\ UNCHANGED <<entry, corpus_with_embeddings, index, query, top_n, api_outcome,
                   query_embedding, indices, retrieved, context, prompt, printed>>
    /\ UNCHANGED notRagVars

RagNext == EmbedStep \/ SearchStep \/ SelectStep \/ JoinStep \/ PromptStep \/ CompleteStep

-----------------------------------------------------------------------------
(* The RAG notebook: load_corpus, save_embeddings_json, load_embeddings_json *)

K_name == <<"n", "a", "m", "e">>

K_body == <<"b", "o", "d", "y">>

\* A path is <<directory, file name>>; a directory is the sequence of its
\* components and a file name a sequence of characters.
DataDir == <<"data">>

Dirs == {<<"data">>, <<"data", "a">>, <<"data", "a", "b">>, <<"other">>}

FileNames == {<<"a", ".", "j", "s", "o", "n">>, <<"b", ".", "j", "s", "o", "n">>, <<"a", ".", "t", "x", "t">>, <<"a", "j", "s", "o", "n">>}

\* story files: one as the README gives it, one with the keys in another
\* order and a key more, one without its body
Story1 ==
    PyDict(<< <<K_name, PyStr(<<"A">>)>>,
              <<K_body, PyStr(<<"x", "\n", "y">>)>>,
              <<K_metadata, PyDict(<< <<<<"y", "e", "a", "r">>, PyNum(1911)>> >>)>> >>)

Story2 ==
    PyDict(<< <<K_body, PyStr(<<"z">>)>>,
              <<<<"e", "x", "t", "r", "a">>, PyNum(0)>>,
              <<K_metadata, PyDict(<<>>)>>,
              <<K_name, PyStr(<<"B">>)>> >>)

StoryNoBody ==
    PyDict(<< <<K_name, PyStr(<<"C">>)>>, <<K_metadata, PyDict(<<>>)>> >>)

FileContents == {JsonDumps(Story1), JsonDumps(Story2), JsonDumps(StoryNoBody)}

NoFiles == [p \in {} |-> <<>>]

\* the file systems with at most MaxFiles files
FileSystems ==
    LET Paths == Dirs \X FileNames
    IN  UNION {[P -> FileContents] : P \in {Q \in SUBSET Paths : Cardinality(Q) <= MaxFiles}}

\* os.walk lists the subdirectories of d and walks each in turn
SubDirs(d) == {x \in Dirs : Len(x) = Len(d) + 1 /\ SubSeq(x, 1, Len(d)) = d}

RECURSIVE SetToSeq(_)
SetToSeq(S) ==
    IF S = {} THEN <<>>
    ELSE LET x == CHOOSE y \in S : TRUE IN <<x>> \o SetToSeq(S \ {x})

NamesIn(d) == {p[2] : p \in {q \in DOMAIN fs : q[1] = d}}

\* str.endswith
EndsWith(s, suffix) ==
    Len(s) >= Len(suffix) /\ SubSeq(s, Len(s) - Len(suffix) + 1, Len(s)) = suffix

\* (mutant: the suffix is tested without its dot)
IsJsonFileNoDot(name) == EndsWith(name, <<"j", "s", "o", "n">>)

\* file.endswith('.json')
IsJsonFile(name) == EndsWith(name, <<".", "j", "s", "o", "n">>)

\* the dict load_corpus appends for the parsed file `d`
CorpusEntry(d) ==
    PyDict(<< <<K_name, DictGet(d, K_name)>>,
              <<K_body, DictGet(d, K_body)>>,
              <<K_metadata, DictGet(d, K_metadata)>> >>)

\* the records get_embeddings_for_corpus can build: a chunk text, the
\* embedding or None, and the metadata of the entry
EmbeddedRecords ==
    {PyDict(<< <<K_text, PyStr(t)>>, <<K_embedding, e>>, <<K_metadata, m>> >>) :
        t \in {<<"a", " ", "b">>, <<"\"", "\\", "\n">> \o <<"U+00E9">>},
        e \in {PyNone, PyVec(<<0, -12>>)},
        m \in {PyDict(<<>>), DictGet(Story1, K_metadata)}}

EmbeddedData == UNION {[1..n -> EmbeddedRecords] : n \in 0..MaxRecords}

\* the path the notebook saves the embeddings to
EmbeddingsPath == <<<<"output">>, <<"e", ".", "j", "s", "o", "n">>>>

FileIdle ==
    /\ fs = NoFiles
    /\ walk_todo = <<>>
    /\ root = <<>>
    /\ files = {}
    /\ corpus = <<>>

\* load_corpus(data_dir) is about to start: corpus = []
LoadCorpusInit ==
    /\ entry = "load_corpus"
    /\ nb_pc = "walk"
    /\ fs \in FileSystems
    /\ walk_todo = <<DataDir>>
    /\ root = <<>>
    /\ files = {}
    /\ corpus = <<>>
    /\ corpus_with_embeddings = <<>>

\* save_embeddings_json(data, path) then load_embeddings_json(path)
SaveLoadInit ==
    /\ entry = "save_load"
    /\ nb_pc = "save"
    /\ fs \in {NoFiles, [p \in {EmbeddingsPath} |-> JsonDumps(PyList(<<PyNum(1)>>))]}
    /\ corpus_with_embeddings \in EmbeddedData
    /\ walk_todo = <<>>
    /\ root = <<>>
    /\ files = {}
    /\ corpus = <<>>

\* what neither call touches of the retrieval state
RagUnused ==
    /\ index = <<>>
    /\ query = <<>>
    /\ top_n = 0
    /\ api_outcome = [raises |-> FALSE, exc |-> "", data |-> <<>>]
    /\ query_embedding = PyNone
    /\ indices = <<>>
    /\ retrieved = <<>>
    /\ context = <<>>
    /\ prompt = <<>>
    /\ result = PyNone
    /\ printed = <<>>
    /\ log = <<>>

ragLocals == <<index, query, top_n, api_outcome, query_embedding, indices, retrieved,
               context, prompt, printed, log>>

\* for root, _, files in os.walk(data_dir): the next directory is yielded
WalkStep ==
    /\ entry = "load_corpus"
    /\ nb_pc = "walk"
    /\ walk_todo # <<>>
    /\ root' = Head(walk_todo)
    /\ files' = NamesIn(Head(walk_todo))
    /\ walk_todo' = SetToSeq(SubDirs(Head(walk_todo))) \o Tail(walk_todo)
    /\ nb_pc' = "files"
    /\ UNCHANGED <<entry, corpus_with_embeddings, result, fs, corpus, ragLocals, chunkVars, scriptVars, sceneVars, embedVars>>

\* for file in files: one name, in the order the listing gave
FileStep ==
    /\ entry = "load_corpus"
    /\ nb_pc = "files"
    /\ \E file \in files :
        /\ files' = files \ {file}
        /\ IF ~IsJsonFile(file)
           THEN UNCHANGED <<nb_pc, corpus>>
           ELSE LET data == JsonLoads(fs[<<root, file>>])
                IN  IF data.ok /\ data.val.t = "dict"
                       /\ {K_name, K_body, K_metadata} \subseteq DictKeys(data.val)
                    THEN corpus' = Append(corpus, CorpusEntry(data.val)) /\ UNCHANGED nb_pc
                    ELSE nb_pc' = "raised" /\ UNCHANGED corpus  \* JSONDecodeError, KeyError
    /\ UNCHANGED <<entry, corpus_with_embeddings, result, fs, walk_todo, root, ragLocals,
                   chunkVars, scriptVars, sceneVars, embedVars>>

\* the names of root are used up: back to the walk
FilesDone ==
    /\ entry = "load_corpus"
    /\ nb_pc = "files"
    /\ files = {}
    /\ nb_pc' = "walk"
    /\ UNCHANGED <<entry, corpus_with_embeddings, result, fs, walk_todo, root, files, corpus,
                   ragLocals, chunkVars, scriptVars, sceneVars, embedVars>>

\* the walk is over: return corpus
LoadCorpusReturn ==
    /\ entry = "load_corpus"
    /\ nb_pc = "walk"
    /\ walk_todo = <<>>
    /\ result' = PyList(corpus)
    /\ nb_pc' = "returned"
    /\ UNCHANGED <<entry, corpus_with_embeddings, fs, walk_todo, root, files, corpus,
                   ragLocals, chunkVars, scriptVars, sceneVars, embedVars>>

\* with open(filepath, 'w') as f: f.write(content)
WriteFile(files_, path, content) ==
    [p \in DOMAIN files_ \cup {path} |-> IF p = path THEN content ELSE files_[p]]

\* save_embeddings_json(corpus_with_embeddings, path): json.dump(data, f)
SaveStep ==
    /\ entry = "save_load"
    /\ nb_pc = "save"
    /\ fs' = WriteFile(fs, EmbeddingsPath, JsonDumps(PyList(corpus_with_embeddings)))
    /\ nb_pc' = "load"
    /\ UNCHANGED <<entry, corpus_with_embeddings, result, walk_todo, root, files, corpus,
                   ragLocals, chunkVars, scriptVars, sceneVars, embedVars>>

\* load_embeddings_json(path): return json.load(f)
LoadStep ==
    /\ entry = "save_load"
    /\ nb_pc = "load"
    /\ LET r == JsonLoads(fs[EmbeddingsPath])
       IN  IF r.ok
           THEN result' = r.val /\ nb_pc' = "returned"
           ELSE nb_pc' = "raised" /\ UNCHANGED result
    /\ UNCHANGED <<entry, corpus_with_embeddings, fs, walk_todo, root, files, corpus,
                   ragLocals, chunkVars, scriptVars, sceneVars, embedVars>>

FileNext == WalkStep \/ FileStep \/ FilesDone \/ LoadCorpusReturn \/ SaveStep \/ LoadStep

-----------------------------------------------------------------------------
(* The RAG notebook: get_embeddings_for_corpus *)

\* get_entry_text(entry): f"{entry['name']}\n{entry['body']}"
GetEntryText(e) == DictGet(e, K_name).v \o <<"\n">> \o DictGet(e, K_body).v

\* s.split(sep) from position i on: cur is the piece being read
RECURSIVE SplitSep(_, _, _, _, _)
SplitSep(s, sep, i, cur, acc) ==
    IF i > Len(s) THEN Append(acc, cur)
    ELSE IF i + Len(sep) - 1 <= Len(s) /\ SubSeq(s, i, i + Len(sep) - 1) = sep
    THEN SplitSep(s, sep, i + Len(sep), <<>>, Append(acc, cur))
    ELSE SplitSep(s, sep, i + 1, Append(cur, s[i]), acc)

\* chunk_text_for_embeddings(text): text.split("\n\n")
ChunkTextForEmbeddings(t) == SplitSep(t, <<"\n", "\n">>, 1, <<>>, <<>>)

\* the corpora handed over: entries as load_corpus builds them, with a body
\* of one paragraph, one that ends with a blank line and one that starts
\* with an empty line
InputCorpora ==
    LET Story(n, b, m) ==
            PyDict(<< <<K_name, PyStr(n)>>, <<K_body, PyStr(b)>>, <<K_metadata, m>> >>)
        entries == {CorpusEntry(Story1),
                    Story(<<"B">>, <<"p", "\n", "\n">>, PyDict(<<>>)),
                    Story(<<"C">>, <<"\n", "z">>, PyDict(<<>>))}
    IN  UNION {[1..n -> entries] : n \in 0..MaxEntries}

\* (mutant: a chunk without an embedding is left out)
AppendRecordSkipsNone(records, chunk, embedding, e) ==
    IF IsNone(embedding) THEN records
    ELSE Append(records, PyDict(<< <<K_text, PyStr(chunk)>>,
                                   <<K_embedding, embedding>>,
                                   <<K_metadata, DictGet(e, K_metadata)>> >>))

\* corpus_with_embeddings.append({'text': ..., 'embedding': ..., 'metadata': ...})
AppendRecord(records, chunk, embedding, e) ==
    Append(records, PyDict(<< <<K_text, PyStr(chunk)>>,
                              <<K_embedding, embedding>>,
                              <<K_metadata, DictGet(e, K_metadata)>> >>))

EmbedIdle ==
    /\ entry_no = 0
    /\ entry_chunks = <<>>
    /\ chunk_pos = 0
    /\ embed_calls = <<>>

\* get_embeddings_for_corpus(corpus) is about to start
EmbedCorpusInit ==
    /\ entry = "get_embeddings_for_corpus"
    /\ nb_pc = "start"
    /\ corpus \in InputCorpora
    /\ corpus_with_embeddings = <<>>
    /\ fs = NoFiles
    /\ walk_todo = <<>>
    /\ root = <<>>
    /\ files = {}
    /\ EmbedIdle

\* what a step of get_embeddings_for_corpus leaves alone
notEmbedVars == <<entry, corpus, index, query, top_n, query_embedding, indices, retrieved,
                  context, prompt, log, fs, walk_todo, root, files,
                  chunkVars, scriptVars, sceneVars>>

\* the three lines of the heading; corpus_with_embeddings = []
EmbedCorpusStart ==
    /\ entry = "get_embeddings_for_corpus"
    /\ nb_pc = "start"
    /\ printed' = printed \o
           << <<"------------------------------------------------------------------------">>,
              <<"Generating embeddings for ", ToString(Len(corpus)), " corpus entries.">>,
              <<"------------------------------------------------------------------------">> >>
    /\ corpus_with_embeddings' = <<>>
    /\ nb_pc' = "entries"
    /\ UNCHANGED <<result, api_outcome, embedVars>>
    /\ UNCHANGED notEmbedVars

\* for entry in corpus: the text of the entry is cut into chunks
EmbedCorpusEntry ==
    /\ entry = "get_embeddings_for_corpus"
    /\ nb_pc = "entries"
    /\ entry_no < Len(corpus)
    /\ LET e == corpus[entry_no + 1]
           cs == ChunkTextForEmbeddings(GetEntryText(e))
       IN  /\ entry_chunks' = cs
           /\ printed' = printed \o
                  << <<"Generating embeddings for ">> \o DictGet(e, K_name).v \o <<":">>,
                     <<"  ", ToString(Len(cs)), " chunks found.">> >>
    /\ chunk_pos' = 0
    /\ nb_pc' = "chunks"
    /\ UNCHANGED <<result, api_outcome, corpus_with_embeddings, entry_no, embed_calls>>
    /\ UNCHANGED notEmbedVars

\* for chunk in tqdm(chunks): get_embeddings_for_text(chunk) and the append.
\* The API raises, answers without data or answers with one embedding.
EmbedCorpusChunk ==
    /\ entry = "get_embeddings_for_corpus"
    /\ nb_pc = "chunks"
    /\ chunk_pos < Len(entry_chunks)
    /\ \E o \in {x \in EmbeddingOutcomes : x.exc # "RateLimitError" /\ Len(x.data) <= 1
                                          /\ x.data # <<PyVec(<<0, 0>>)>>} :
           LET chunk == entry_chunks[chunk_pos + 1]
               r     == GetEmbeddingsForText(o)
           IN  /\ api_outcome' = o
               /\ embed_calls' = Append(embed_calls, [text |-> chunk, outcome |-> o])
               /\ printed' = printed \o r.printed
               /\ IF r.raised # ""
                  THEN /\ nb_pc' = "raised"
                       /\ UNCHANGED <<corpus_with_embeddings, chunk_pos>>
                  ELSE /\ corpus_with_embeddings' =
                              AppendRecord(corpus_with_embeddings, chunk, r.ret,
                                           corpus[entry_no + 1])
                       /\ chunk_pos' = chunk_pos + 1
                       /\ UNCHANGED nb_pc
    /\ UNCHANGED <<result, entry_no, entry_chunks>>
    /\ UNCHANGED notEmbedVars

\* the chunks of the entry are done: print()
EmbedCorpusEntryDone ==
    /\ entry = "get_embeddings_for_corpus"
    /\ nb_pc = "chunks"
    /\ chunk_pos = Len(entry_chunks)
    /\ printed' = Append(printed, <<>>)
    /\ entry_no' = entry_no + 1
    /\ nb_pc' = "entries"
    /\ UNCHANGED <<result, api_outcome, corpus_with_embeddings, entry_chunks, chunk_pos,
                   embed_calls>>
    /\ UNCHANGED notEmbedVars

\* the entries are done: return corpus_with_embeddings
EmbedCorpusReturn ==
    /\ entry = "get_embeddings_for_corpus"
    /\ nb_pc = "entries"
    /\ entry_no = Len(corpus)
    /\ result' = PyList(corpus_with_embeddings)
    /\ nb_pc' = "returned"
    /\ UNCHANGED <<printed, api_outcome, corpus_with_embeddings, embedVars>>
    /\ UNCHANGED notEmbedVars

EmbedCorpusNext ==
    EmbedCorpusStart \/ EmbedCorpusEntry \/ EmbedCorpusChunk \/ EmbedCorpusEntryDone
        \/ EmbedCorpusReturn

-----------------------------------------------------------------------------
(* scripts/publish and scripts/update *)

\* A line of output is a sequence of words, a word a sequence of pieces; a
\* line of conda's export is a sequence of characters.
Word(w) == <<w>>

DistNames == <<<<"a", ".", "w", "h", "l">>, <<"b", ".", "g", "z">>, <<".", "c">>>>

\* the pathname expansion of dist/*: the names that do not start with a dot,
\* in order; the pattern itself when nothing matches
GlobDist(kind, names) ==
    LET hits == SelectSeq(DistNames, LAMBDA n : n \in names /\ n[1] # ".")
    IN  IF kind = "dir" /\ hits # <<>>
        THEN [i \in 1..Len(hits) |-> <<"dist/">> \o hits[i]]
        ELSE << <<"dist/", "*">> >>

\* (mutant: the command is run, not echoed)
RunTwineUpload(out, up, targets) ==
    [stdout |-> out, uploaded |-> up \cup {targets[i] : i \in 1..Len(targets)}]

\* echo twine upload dist/*
EchoTwineUpload(out, up, targets) ==
    [stdout |-> Append(out, <<Word("twine"), Word("upload")>> \o targets), uploaded |-> up]

\* what set -x writes to standard error for a command
Trace(on, err, command) == IF on THEN Append(err, <<Word("+")>> \o command) ELSE err

StartsWith(s, prefix) == Len(s) >= Len(prefix) /\ SubSeq(s, 1, Len(prefix)) = prefix

Contains(s, part) ==
    \E i \in 1..(Len(s) - Len(part) + 1) : SubSeq(s, i, i + Len(part) - 1) = part

\* (mutant: the pattern is not anchored)
GrepVAnywhere(lines, prefix) == SelectSeq(lines, LAMBDA l : ~Contains(l, prefix))

\* egrep -v "^prefix": the lines that do not start with the prefix
GrepV(lines, prefix) == SelectSeq(lines, LAMBDA l : ~StartsWith(l, prefix))

ExportLines == {<<"n", "a", "m", "e", ":", " ", "l">>, <<"p", "r", "e", "f", "i", "x", ":", " ", "/", "c">>, <<"d", "e", "p", "s", ":">>, <<" ", "n", "a", "m", "e", ":", " ", "x">>, <<"n", "a", "m", "e", "s", ":", " ", "y">>}

Exports == UNION {[1..n -> ExportLines] : n \in 0..MaxLines}

Banner(s) == <<Word(IF s = "publish" THEN "Publishing lcats to pip..."
                    ELSE "Updating the Anaconda dependency listing...")>>

NotYetLine ==
    <<Word("Publishing not yet supported until LCATS is more heavily tested / fleshed out.")>>

NoDistLine == <<Word("No dist directory found, please run build first.")>>

ScriptIdle ==
    /\ script = "none"
    /\ sh_pc = "idle"
    /\ xtrace = FALSE
    /\ stdout = <<>>
    /\ stderr = <<>>
    /\ dist = "absent"
    /\ dist_files = {}
    /\ uploaded = {}
    /\ conda_ok = FALSE
    /\ conda_export = <<>>
    /\ environment_yml = [exists |-> FALSE, lines |-> <<>>]

ScriptInit ==
    /\ script \in {"publish", "update"}
    /\ sh_pc = "echo"
    /\ xtrace = FALSE
    /\ stdout = <<>>
    /\ stderr = <<>>
    /\ uploaded = {}
    /\ IF script = "publish"
       THEN /\ dist \in {"absent", "file", "dir"}
            /\ dist_files \in (IF dist = "dir"
                               THEN SUBSET {DistNames[i] : i \in 1..Len(DistNames)}
                               ELSE {{}})
            /\ conda_ok = FALSE
            /\ conda_export = <<>>
            /\ environment_yml = [exists |-> FALSE, lines |-> <<>>]
       ELSE /\ dist = "absent"
            /\ dist_files = {}
            /\ conda_ok \in BOOLEAN
            /\ conda_export \in (IF conda_ok THEN Exports ELSE {<<>>})
            /\ environment_yml \in {[exists |-> FALSE, lines |-> <<>>],
                                    [exists |-> TRUE, lines |-> <<<<"o", "l", "d">>>>]}

\* echo "Publishing lcats to pip..." / echo "Updating the Anaconda ..."
ShEchoBanner ==
    /\ sh_pc = "echo"
    /\ stdout' = Append(stdout, Banner(script))
    /\ sh_pc' = "set-x"
    /\ UNCHANGED <<script, xtrace, stderr, dist, dist_files, uploaded, conda_ok, conda_export,
                   environment_yml>>
    /\ UNCHANGED notScriptVars

\* set -x
ShSetX ==
    /\ sh_pc = "set-x"
    /\ xtrace' = TRUE
    /\ sh_pc' = IF script = "publish" THEN "if" ELSE "export"
    /\ UNCHANGED <<script, stdout, stderr, dist, dist_files, uploaded, conda_ok, conda_export,
                   environment_yml>>
    /\ UNCHANGED notScriptVars

\* if [ -d "dist" ]
PublishTestDist ==
    /\ sh_pc = "if"
    /\ stderr' = Trace(xtrace, stderr, <<Word("["), Word("-d"), Word("dist"), Word("]")>>)
    /\ sh_pc' = IF dist = "dir" THEN "then" ELSE "else"
    /\ UNCHANGED <<script, xtrace, stdout, dist, dist_files, uploaded, conda_ok, conda_export,
                   environment_yml>>
    /\ UNCHANGED notScriptVars

\* then: echo twine upload dist/*
PublishEchoTwine ==
    /\ sh_pc = "then"
    /\ LET targets == GlobDist(dist, dist_files)
           r == EchoTwineUpload(stdout, uploaded, targets)
       IN  /\ stdout' = r.stdout
           /\ uploaded' = r.uploaded
           /\ stderr' = Trace(xtrace, stderr,
                              <<Word("echo"), Word("twine"), Word("upload")>> \o targets)
    /\ sh_pc' = "then2"
    /\ UNCHANGED <<script, xtrace, dist, dist_files, conda_ok, conda_export, environment_yml>>
    /\ UNCHANGED notScriptVars

\* echo "Publishing not yet supported ..."
PublishEchoNotYet ==
    /\ sh_pc = "then2"
    /\ stdout' = Append(stdout, NotYetLine)
    /\ stderr' = Trace(xtrace, stderr, <<Word("echo")>> \o NotYetLine)
    /\ sh_pc' = "set+x"
    /\ UNCHANGED <<script, xtrace, dist, dist_files, uploaded, conda_ok, conda_export,
                   environment_yml>>
    /\ UNCHANGED notScriptVars

\* else: echo "No dist directory found, please run build first."
PublishEchoNoDist ==
    /\ sh_pc = "else"
    /\ stdout' = Append(stdout, NoDistLine)
    /\ stderr' = Trace(xtrace, stderr, <<Word("echo")>> \o NoDistLine)
    /\ sh_pc' = "set+x"
    /\ UNCHANGED <<script, xtrace, dist, dist_files, uploaded, conda_ok, conda_export,
                   environment_yml>>
    /\ UNCHANGED notScriptVars

\* conda env export | egrep -v "^name:" | egrep -v "^prefix:" > environment.yml
\* (the redirection creates or empties the file even when conda fails)
UpdateExport ==
    /\ sh_pc = "export"
    /\ LET exported == IF conda_ok THEN conda_export ELSE <<>>
       IN  environment_yml' =
               [exists |-> TRUE,
                lines  |-> GrepV(GrepV(exported, <<"n", "a", "m", "e", ":">>), <<"p", "r", "e", "f", "i", "x", ":">>)]
    /\ stderr' = Trace(xtrace, Trace(xtrace, Trace(xtrace, stderr,
                           <<Word("conda"), Word("env"), Word("export")>>),
                           <<Word("egrep"), Word("-v"), Word("^name:")>>),
                           <<Word("egrep"), Word("-v"), Word("^prefix:")>>)
    /\ sh_pc' = "set+x"
    /\ UNCHANGED <<script, xtrace, stdout, dist, dist_files, uploaded, conda_ok, conda_export>>
    /\ UNCHANGED notScriptVars

\* { set +x; } 2>/dev/null
ShSetPlusX ==
    /\ sh_pc = "set+x"
    /\ xtrace' = FALSE
    /\ sh_pc' = "echo2"
    /\ UNCHANGED <<script, stdout, stderr, dist, dist_files, uploaded, conda_ok, conda_export,
                   environment_yml>>
    /\ UNCHANGED notScriptVars

\* echo
ShEchoBlank ==
    /\ sh_pc = "echo2"
    /\ stdout' = Append(stdout, <<>>)
    /\ stderr' = Trace(xtrace, stderr, <<Word("echo")>>)
    /\ sh_pc' = "done"
    /\ UNCHANGED <<script, xtrace, dist, dist_files, uploaded, conda_ok, conda_export,
                   environment_yml>>
    /\ UNCHANGED notScriptVars

ScriptNext ==
    \/ ShEchoBanner
    \/ ShSetX
    \/ PublishTestDist
    \/ PublishEchoTwine
    \/ PublishEchoNotYet
    \/ PublishEchoNoDist
    \/ UpdateExport
    \/ ShSetPlusX
    \/ ShEchoBlank

-----------------------------------------------------------------------------
(* chunk_text *)

\* (mutant: the slice takes one word too many)
ChunkWordsWide(ws, st, mt) == PySlice(ws, st, st + mt + 1)

\* chunk = words[start:start+max_tokens]
ChunkWords(ws, st, mt) == PySlice(ws, st, st + mt)

\* (mutant: the overlap is added to the step, not subtracted)
NextStartPlusOverlap(st, mt, ov) == st + mt + ov

\* (mutant: the step forgets the overlap)
NextStartNoOverlap(st, mt, ov) == st + mt

\* start += max_tokens - overlap
NextStart(st, mt, ov) == st + mt - ov

\* (mutant: chunk_index counts from one)
MakeChunkIndexFromOne(cs, st, chunk) ==
    [chunk_index |-> Len(cs) + 1,
     start_word  |-> st,
     end_word    |-> st + Len(chunk),
     text        |-> Join(<<" ">>, chunk)]

\* the dict appended for one chunk
MakeChunk(cs, st, chunk) ==
    [chunk_index |-> Len(cs),
     start_word  |-> st,
     end_word    |-> st + Len(chunk),
     text        |-> Join(<<" ">>, chunk)]

\* the tiktoken encoding the function builds (enc): a word is cut into
\* vocabulary pieces, here of at most two characters, one token each
EncodeLen(s) ==
    LET ws == Split(s)
        RECURSIVE Sum(_)
        Sum(i) == IF i > Len(ws) THEN 0 ELSE ((Len(ws[i]) + 1) \div 2) + Sum(i + 1)
    IN  Sum(1)

ChunkIdle ==
    /\ ct_pc = "idle"
    /\ text = <<>>
    /\ max_tokens = 0
    /\ overlap = 0
    /\ words = <<>>
    /\ chunks = <<>>
    /\ start = 0

ChunkInit ==
    /\ ct_pc = "call"
    /\ text \in Texts
    /\ max_tokens \in -1..MaxTokens
    /\ overlap \in -2..MaxTokens
    /\ words = <<>>
    /\ chunks = <<>>
    /\ start = 0

\* words = text.split(); chunks = []; start = 0
ChunkTextEnter ==
    /\ ct_pc = "call"
    /\ words' = Split(text)
    /\ chunks' = <<>>
    /\ start' = 0
    /\ ct_pc' = "loop"
    /\ UNCHANGED <<text, max_tokens, overlap>>
    /\ UNCHANGED notChunkVars

\* one pass of the while body
ChunkTextLoop ==
    /\ ct_pc = "loop"
    /\ start < Len(words)
    /\ Len(chunks) < MaxChunks
    /\ LET chunk == ChunkWords(words, start, max_tokens)
       IN  chunks' = Append(chunks, MakeChunk(chunks, start, chunk))
    /\ start' = NextStart(start, max_tokens, overlap)
    /\ UNCHANGED <<ct_pc, text, max_tokens, overlap, words>>
    /\ UNCHANGED notChunkVars

\* the while condition fails: return chunks
ChunkTextReturn ==
    /\ ct_pc = "loop"
    /\ ~(start < Len(words))
    /\ ct_pc' = "done"
    /\ UNCHANGED <<text, max_tokens, overlap, words, chunks, start>>
    /\ UNCHANGED notChunkVars

ChunkNext == ChunkTextEnter \/ ChunkTextLoop \/ ChunkTextReturn

-----------------------------------------------------------------------------
(* The scene-extraction notebook: try_parse_json, extract_scenes_from_text *)

K_events == <<"e", "v", "e", "n", "t", "s">>

K_chunk_index == <<"c", "h", "u", "n", "k", "_", "i", "n", "d", "e", "x">>

\* s.find(c) for a character c: the index (from 0) of its first occurrence, or -1
Find(s, c) ==
    IF \E i \in 1..Len(s) : s[i] = c
    THEN (CHOOSE i \in 1..Len(s) : s[i] = c /\ \A j \in 1..(i - 1) : s[j] # c) - 1
    ELSE -1

\* s.rfind(c): the index (from 0) of its last occurrence, or -1
RFind(s, c) ==
    IF \E i \in 1..Len(s) : s[i] = c
    THEN (CHOOSE i \in 1..Len(s) : s[i] = c /\ \A j \in (i + 1)..Len(s) : s[j] # c) - 1
    ELSE -1

\* try_parse_json(output): the value returned (val), or the exception that
\* leaves the function (exc, "" for none)
TryParseJson(out) ==
    LET whole == JsonLoads(out)
    IN  IF whole.ok THEN [exc |-> "", val |-> whole.val]
        ELSE IF whole.err # "JSONDecodeError"        \* except json.JSONDecodeError:
        THEN [exc |-> whole.err, val |-> PyNone]
        ELSE LET start_brace == Find(out, "{")
                 end_brace   == RFind(out, "}") + 1
                 part        == JsonLoads(PySlice(out, start_brace, end_brace))
             IN  IF part.ok THEN [exc |-> "", val |-> part.val]
                 ELSE [exc |-> "", val |-> PyNone]   \* except: return None

\* chunk_text(text, max_tokens, overlap) run to its return
ChunkText(t, mt, ov) ==
    LET ws == Split(t)
        RECURSIVE Loop(_, _)
        Loop(st, cs) ==
            IF st < Len(ws)
            THEN Loop(NextStart(st, mt, ov),
                      Append(cs, MakeChunk(cs, st, ChunkWords(ws, st, mt))))
            ELSE cs
    IN  Loop(0, <<>>)

\* build_prompt(chunk): the two messages, the fixed texts as one piece each
BuildPrompt(chunk) ==
    <<[role |-> "system",
       content |-> <<"You are a literary analyst trained to identify narrative scenes.">>],
      [role |-> "user",
       content |-> <<"Analyze the following text [...] with a top-level key 'events':",
                     "\n", "\n">> \o chunk]>>

\* the texts of replies: JSON (objects with events, with events that are not
\* objects, with no events; a list; a number; null), JSON inside prose,
\* prose, and nesting deeper than the scanner goes
Replies ==
    LET plain  == PyDict(<<>>)
        tagged == PyDict(<< <<K_chunk_index, PyNum(9)>> >>)
        EventsReply(events) == JsonDumps(PyDict(<< <<K_events, events>> >>))
    IN  {EventsReply(PyList(<<plain>>)),
         EventsReply(PyList(<<tagged, plain>>)),
         EventsReply(PyList(<<plain, PyNum(1)>>)),
         EventsReply(PyStr(<<>>)),
         JsonDumps(PyDict(<<>>)),
         JsonDumps(PyList(<<PyStr(K_events)>>)),
         JsonDumps(PyNum(1)),
         JsonDumps(PyNone),
         <<"x", " ">> \o EventsReply(PyList(<<plain>>)) \o <<"!">>,
         <<"n", "o">>,
         [i \in 1..(RecursionLimit + 1) |-> "["]}

\* the outputs handed to try_parse_json: the short strings of brackets,
\* braces, a digit and a letter, and the replies
Outputs ==
    UNION {[1..n -> {"{", "}", "[", "]", "1", "x"}] : n \in 0..MaxOutputLen} \cup Replies

\* what openai.ChatCompletion.create can do: raise, or answer with a text or
\* with no text (content None)
ChatOutcomes ==
    {[raises |-> TRUE, exc |-> "APIError", content |-> PyNone]}
    \cup {[raises |-> FALSE, exc |-> "", content |-> c] :
              c \in {PyNone} \cup {PyStr(r) : r \in Replies}}

\* (mutant: the call is wrapped in a handler that answers with an empty text)
CallOpenaiApiSwallows(o) ==
    IF o.raises THEN [exc |-> "", val |-> PyStr(<<>>)] ELSE [exc |-> "", val |-> o.content]

\* call_openai_api(messages) when the API does `o`: the content returned, or
\* the exception that leaves the function
CallOpenaiApi(o) ==
    IF o.raises THEN [exc |-> o.exc, val |-> PyNone] ELSE [exc |-> "", val |-> o.content]

\* bool(x)
Truthy(x) ==
    CASE x.t = "None" -> FALSE
      [] x.t = "num"  -> x.v[1] # 0
      [] OTHER        -> x.v # <<>>

\* d[key] = val on a dict
DictSet(d, key, val) ==
    IF key \in DictKeys(d)
    THEN PyDict([k \in 1..Len(d.v) |-> IF d.v[k][1] = key THEN <<key, val>> ELSE d.v[k]])
    ELSE PyDict(Append(d.v, <<key, val>>))

\* for event in events: event["chunk_index"] = idx; all_scenes.append(event)
RECURSIVE AppendEvents(_, _, _)
AppendEvents(scenes, events, idx) ==
    IF events = <<>> THEN [exc |-> "", scenes |-> scenes]
    ELSE IF Head(events).t # "dict" THEN [exc |-> "TypeError", scenes |-> scenes]
    ELSE AppendEvents(Append(scenes, DictSet(Head(events), K_chunk_index, PyNum(idx))),
                      Tail(events), idx)

\* if parsed and "events" in parsed: for event in parsed["events"]: ...
CollectScenes(scenes, parsed, idx) ==
    LET same      == [exc |-> "", scenes |-> scenes]
        typeError == [exc |-> "TypeError", scenes |-> scenes]
    IN  IF ~Truthy(parsed) THEN same
        ELSE CASE parsed.t = "num"  -> typeError
               [] parsed.t = "str"  ->
                    IF Contains(parsed.v, K_events) THEN typeError ELSE same
               [] parsed.t = "list" ->
                    IF \E i \in 1..Len(parsed.v) :
                           parsed.v[i].t = "str" /\ parsed.v[i].v = K_events
                    THEN typeError ELSE same
               [] parsed.t = "dict" ->
                    IF K_events \notin DictKeys(parsed) THEN same
                    ELSE LET events == DictGet(parsed, K_events)
                         IN  CASE events.t \in {"None", "num"} -> typeError
                               [] events.t = "list" -> AppendEvents(scenes, events.v, idx)
                               [] events.t = "str"  ->
                                    AppendEvents(scenes,
                                        [i \in 1..Len(events.v) |-> PyStr(<<events.v[i]>>)], idx)
                               [] events.t = "dict" ->
                                    AppendEvents(scenes,
                                        [i \in 1..Len(events.v) |-> PyStr(events.v[i][1])], idx)

SceneIdle ==
    /\ scene_entry = "none"
    /\ scene_pc = "idle"
    /\ output = <<>>
    /\ scene_text = <<>>
    /\ scene_chunks = <<>>
    /\ chunk_no = 0
    /\ api_calls = <<>>
    /\ all_scenes = <<>>
    /\ scene_result = [exc |-> "", val |-> PyNone]

SceneInit ==
    /\ scene_pc = "call"
    /\ \/ scene_entry = "try_parse_json" /\ output \in Outputs /\ scene_text = <<>>
       \/ /\ scene_entry = "extract_scenes_from_text"
          /\ output = <<>>
          /\ scene_text \in {t \in Texts : \A i \in 1..Len(t) : t[i] # "\n"}
    /\ scene_chunks = <<>>
    /\ chunk_no = 0
    /\ api_calls = <<>>
    /\ all_scenes = <<>>
    /\ scene_result = [exc |-> "", val |-> PyNone]

\* a call of try_parse_json(output) from the top level
TryParseJsonCall ==
    /\ scene_entry = "try_parse_json"
    /\ scene_pc = "call"
    /\ scene_result' = TryParseJson(output)
    /\ scene_pc' = IF scene_result'.exc = "" THEN "returned" ELSE "raised"
    /\ UNCHANGED <<scene_entry, output, scene_text, scene_chunks, chunk_no, api_calls,
                   all_scenes>>
    /\ UNCHANGED notSceneVars

\* chunks = chunk_text(text); all_scenes = []
ExtractEnter ==
    /\ scene_entry = "extract_scenes_from_text"
    /\ scene_pc = "call"
    /\ scene_chunks' = ChunkText(scene_text, DefaultMaxTokens, DefaultOverlap)
    /\ all_scenes' = <<>>
    /\ chunk_no' = 0
    /\ scene_pc' = "loop"
    /\ UNCHANGED <<scene_entry, output, scene_text, api_calls, scene_result>>
    /\ UNCHANGED notSceneVars

\* one pass of the for body: build_prompt, call_openai_api, try_parse_json and
\* the collection of the events
ExtractChunk ==
    /\ scene_entry = "extract_scenes_from_text"
    /\ scene_pc = "loop"
    /\ chunk_no < Len(scene_chunks)
    /\ \E o \in ChatOutcomes :
           LET chunk    == scene_chunks[chunk_no + 1]
               messages == BuildPrompt(chunk.text)
               response == CallOpenaiApi(o)
               parsed   == IF response.exc # "" THEN response
                           ELSE IF IsNone(response.val)   \* json.loads(None)
                           THEN [exc |-> "TypeError", val |-> PyNone]
                           ELSE TryParseJson(response.val.v)
               got      == IF parsed.exc # ""
                           THEN [exc |-> parsed.exc, scenes |-> all_scenes]
                           ELSE CollectScenes(all_scenes, parsed.val, chunk.chunk_index)
           IN  /\ api_calls' = Append(api_calls, [messages |-> messages, outcome |-> o])
               /\ all_scenes' = got.scenes
               /\ IF got.exc # ""
                  THEN /\ scene_pc' = "raised"
                       /\ scene_result' = [exc |-> got.exc, val |-> PyNone]
                       /\ UNCHANGED chunk_no
                  ELSE /\ chunk_no' = chunk_no + 1
                       /\ UNCHANGED <<scene_pc, scene_result>>
    /\ UNCHANGED <<scene_entry, output, scene_text, scene_chunks>>
    /\ UNCHANGED notSceneVars

\* the for loop is over: return all_scenes
ExtractReturn ==
    /\ scene_entry = "extract_scenes_from_text"
    /\ scene_pc = "loop"
    /\ chunk_no = Len(scene_chunks)
    /\ scene_result' = [exc |-> "", val |-> PyList(all_scenes)]
    /\ scene_pc' = "returned"
    /\ UNCHANGED <<scene_entry, output, scene_text, scene_chunks, chunk_no, api_calls,
                   all_scenes>>
    /\ UNCHANGED notSceneVars

SceneNext == TryParseJsonCall \/ ExtractEnter \/ ExtractChunk \/ ExtractReturn

-----------------------------------------------------------------------------
(* The specifications: the RAG notebook (Spec), chunk_text of the          *)
(* scene-extraction notebook (ChunkSpec, and ChunkFairSpec where the       *)
(* interpreter keeps running the loop), the scripts (ScriptSpec) and       *)
(* try_parse_json and extract_scenes_from_text (SceneSpec)                 *)

Init ==
    /\ ChunkIdle
    /\ ScriptIdle
    /\ SceneIdle
    /\ \/ RagInit /\ FileIdle /\ EmbedIdle
       \/ LoadCorpusInit /\ RagUnused /\ EmbedIdle
       \/ SaveLoadInit /\ RagUnused /\ EmbedIdle
       \/ EmbedCorpusInit /\ RagUnused

Next == RagNext \/ FileNext \/ EmbedCorpusNext

Spec == Init /\ [][Next]_vars

ChunkSpecInit == ChunkInit /\ RagIdle /\ FileIdle /\ EmbedIdle /\ ScriptIdle /\ SceneIdle

ChunkSpec == ChunkSpecInit /\ [][ChunkNext]_vars

ChunkFairSpec == ChunkSpec /\ WF_vars(ChunkNext)

ScriptSpecInit == ScriptInit /\ ChunkIdle /\ RagIdle /\ FileIdle /\ EmbedIdle /\ SceneIdle

ScriptSpec == ScriptSpecInit /\ [][ScriptNext]_vars

SceneSpecInit == SceneInit /\ ChunkIdle /\ RagIdle /\ FileIdle /\ EmbedIdle /\ ScriptIdle

SceneSpec == SceneSpecInit /\ [][SceneNext]_vars

-----------------------------------------------------------------------------
(* Claims about the RAG notebook *)

PipelineOrder == <<"embed", "search", "join", "prompt", "complete">>

IsPrefix(a, b) == Len(a) <= Len(b) /\ a = SubSeq(b, 1, Len(a))

CallEnded == nb_pc \in {"returned", "raised"}

\* C1 (as claimed): every call of retrieve_and_generate runs each of the five
\* steps exactly once, in the fixed order.
C1_EveryStepOncePerCall ==
    (entry = "retrieve_and_generate" /\ CallEnded) => log = PipelineOrder

\* C1 (amended): the steps of retrieve_and_generate start in the fixed order
\* embed, search, join, prompt, complete, each at most once per call; a call
\* that returns has run each exactly once; a call whose embedding failed
\* (query_embedding is None) ends raising in the search, before the context,
\* the prompt and the completion; and the completion request is issued only
\* after the search has returned its top_n chunks.
C1_PipelineOrder ==
    entry = "retrieve_and_generate" =>
        /\ IsPrefix(log, PipelineOrder)
        /\ (nb_pc = "returned" => log = PipelineOrder)
        /\ (nb_pc = "raised" =>
                \/ log = <<"embed", "search">> /\ IsNone(query_embedding)
                \/ log = PipelineOrder)
        /\ ((\E i \in 1..Len(log) : log[i] = "complete") =>
                /\ Len(indices) = top_n
                /\ Len(retrieved) = top_n
                /\ context = GenerateContextFromChunks(retrieved)
                /\ prompt = GeneratePromptFromQueryAndContext(query, context))

C1_Witness ==
    /\ entry = "retrieve_and_generate"
    /\ nb_pc = "returned"
    /\ log = PipelineOrder
    /\ Len(corpus_with_embeddings) = 3
    /\ result.t = "str"

\* the value get_embeddings_for_text handed back in this call
EmbedValue == IF entry = "get_embeddings_for_text" THEN result ELSE query_embedding

\* C2: get_embeddings_for_text never raises; when the API call raises (an
\* error deriving from Exception) it prints one error line and returns None;
\* when the call succeeds with a response that has a first item, it returns
\* that item's embedding and prints nothing.
C2_EmbeddingNeverRaises ==
    (entry # "none" /\ log # <<>>) =>
        /\ ~(nb_pc = "raised" /\ log = <<"embed">>)
        /\ (api_outcome.raises =>
                /\ IsNone(EmbedValue)
                /\ printed = << <<"Error generating embedding: ", api_outcome.exc>> >>)
        /\ ((~api_outcome.raises /\ api_outcome.data # <<>>) =>
                /\ EmbedValue = api_outcome.data[1]
                /\ printed = <<>>)

C2_Witness ==
    /\ entry = "get_embeddings_for_text"
    /\ nb_pc = "returned"
    /\ api_outcome.raises
    /\ api_outcome.exc = "RateLimitError"
    /\ IsNone(result)
    /\ Len(printed) = 1

EmbeddingOf(rec) == VecOf(DictGet(rec, K_embedding))

\* C5: for a corpus of N >= top_n embedded records, a call of
\* get_chunks_for_query that returns, returns exactly top_n records of
\* corpus_with_embeddings, from top_n different rows, nearest first by L2
\* distance to the query embedding, no record left out being nearer than one
\* returned; row i of the index is the embedding of corpus_with_embeddings[i]
\* and result position k is the record at the row the index returned at rank k.
C5_NearestRecords ==
    (/\ entry = "get_chunks_for_query"
     /\ nb_pc = "returned"
     /\ Len(corpus_with_embeddings) >= top_n) =>
        LET q == VecOf(query_embedding)
            N == Len(corpus_with_embeddings)
            D(rec) == L2(EmbeddingOf(rec), q)
        IN  /\ result.t = "list"
            /\ Len(result.v) = top_n
            /\ Len(indices) = top_n
            /\ \A i \in 1..N : index[i] = EmbeddingOf(corpus_with_embeddings[i])
            /\ \A k \in 1..top_n :
                   /\ indices[k] \in 0..(N - 1)
                   /\ result.v[k] = corpus_with_embeddings[indices[k] + 1]
            /\ \A a, b \in 1..top_n : a < b =>
                   /\ indices[a] # indices[b]
                   /\ D(result.v[a]) <= D(result.v[b])
            /\ \A i \in 1..N :
                   (\A k \in 1..top_n : indices[k] # i - 1) =>
                       \A k \in 1..top_n : D(result.v[k]) <= D(corpus_with_embeddings[i])

C5_Witness ==
    /\ entry = "get_chunks_for_query"
    /\ nb_pc = "returned"
    /\ Len(corpus_with_embeddings) = 3
    /\ top_n = 2
    /\ indices = <<2, 0>>
    /\ result.v = <<corpus_with_embeddings[3], corpus_with_embeddings[1]>>

\* the files load_corpus is to read: under data_dir, the name ending in .json
JsonFilesUnderDataDir ==
    {p \in DOMAIN fs : IsPrefix(DataDir, p[1]) /\ EndsWith(p[2], <<".", "j", "s", "o", "n">>)}

\* entry e holds exactly name, body and metadata, with the values of file p
EntryMatchesFile(e, p) ==
    LET d == JsonLoads(fs[p]).val
    IN  /\ e.t = "dict"
        /\ Len(e.v) = 3
        /\ DictKeys(e) = {K_name, K_body, K_metadata}
        /\ \A k \in {K_name, K_body, K_metadata} : DictGet(e, k) = DictGet(d, k)

\* C6: a call of load_corpus that returns, returns one entry for every file
\* under data_dir (at any depth) whose name ends in '.json' and none for any
\* other file; each entry has exactly the keys name, body and metadata with
\* the values of those keys in its file.
C6_LoadCorpusEntries ==
    (entry = "load_corpus" /\ nb_pc = "returned") =>
        /\ result.t = "list"
        /\ Len(result.v) = Cardinality(JsonFilesUnderDataDir)
        /\ \E f \in [1..Len(result.v) -> JsonFilesUnderDataDir] :
               /\ \A i, j \in 1..Len(result.v) : i # j => f[i] # f[j]
               /\ \A i \in 1..Len(result.v) : EntryMatchesFile(result.v[i], f[i])

C6_Witness ==
    /\ entry = "load_corpus"
    /\ nb_pc = "returned"
    /\ Len(result.v) = 1
    /\ <<<<"data", "a", "b">>, <<"b", ".", "j", "s", "o", "n">>>> \in DOMAIN fs
    /\ fs[<<<<"data", "a", "b">>, <<"b", ".", "j", "s", "o", "n">>>>] = JsonDumps(Story2)
    /\ <<<<"data">>, <<"a", "j", "s", "o", "n">>>> \in DOMAIN fs

\* C9: load_embeddings_json(p) after save_embeddings_json(data, p) returns a
\* value equal to data, for every list of records of the shape
\* get_embeddings_for_corpus builds, a None embedding included, whatever the
\* file held before.
C9_SaveLoadRoundTrip ==
    (entry = "save_load" /\ nb_pc \notin {"save", "load"}) =>
        /\ nb_pc = "returned"
        /\ result = PyList(corpus_with_embeddings)

C9_Witness ==
    /\ entry = "save_load"
    /\ nb_pc = "returned"
    /\ Len(corpus_with_embeddings) = 2
    /\ IsNone(DictGet(corpus_with_embeddings[1], K_embedding))
    /\ ~IsNone(DictGet(corpus_with_embeddings[2], K_embedding))
    /\ \E i \in 1..2 : Len(DictGet(corpus_with_embeddings[i], K_text).v) = 4
    /\ result.v[1] = corpus_with_embeddings[1]

\* the chunks of the entries from the i-th on, in entry order and then chunk
\* order: the number of the entry and the text of the chunk
RECURSIVE ChunksFrom(_)
ChunksFrom(i) ==
    IF i > Len(corpus) THEN <<>>
    ELSE LET cs == ChunkTextForEmbeddings(GetEntryText(corpus[i]))
         IN  [k \in 1..Len(cs) |-> [e |-> i, text |-> cs[k]]] \o ChunksFrom(i + 1)

\* the embedding call failed: the API raised, or answered without data
EmbeddingFailed(o) == o.raises \/ o.data = <<>>

\* C17: get_embeddings_for_corpus never ends by an exception, and the list it
\* returns holds one record per chunk of every entry, in entry order and then
\* chunk order: the chunk's text, the embedding the call for that chunk gave
\* (None when the call failed) and the metadata of the entry. Every chunk was
\* handed to get_embeddings_for_text, also after a call that failed.
C17_OneRecordPerChunk ==
    entry = "get_embeddings_for_corpus" =>
        /\ nb_pc # "raised"
        /\ nb_pc = "returned" =>
               LET all == ChunksFrom(1)
               IN  /\ result.t = "list"
                   /\ Len(result.v) = Len(all)
                   /\ Len(embed_calls) = Len(all)
                   /\ \A k \in 1..Len(all) :
                          LET o == embed_calls[k].outcome
                          IN  /\ embed_calls[k].text = all[k].text
                              /\ DictKeys(result.v[k]) = {K_text, K_embedding, K_metadata}
                              /\ Len(result.v[k].v) = 3
                              /\ DictGet(result.v[k], K_text) = PyStr(all[k].text)
                              /\ DictGet(result.v[k], K_embedding) =
                                     IF EmbeddingFailed(o) THEN PyNone ELSE o.data[1]
                              /\ DictGet(result.v[k], K_metadata) =
                                     DictGet(corpus[all[k].e], K_metadata)

C17_Witness ==
    /\ entry = "get_embeddings_for_corpus"
    /\ nb_pc = "returned"
    /\ Len(corpus) = 2
    /\ Len(result.v) >= 3
    /\ embed_calls[1].outcome.raises
    /\ IsNone(DictGet(result.v[1], K_embedding))
    /\ \E k \in 2..Len(result.v) : ~IsNone(DictGet(result.v[k], K_embedding))
    /\ \E k \in 1..Len(result.v) : DictGet(result.v[k], K_text).v = <<>>
    /\ DictGet(corpus[1], K_metadata) # DictGet(corpus[2], K_metadata)

-----------------------------------------------------------------------------
(* Claims about chunk_text *)

SaneArgs == max_tokens >= 1 /\ 0 <= overlap /\ overlap < max_tokens

\* C3: for max_tokens >= 1 and 0 <= overlap < max_tokens every chunk built
\* holds at least 1 and at most max_tokens whitespace-separated words, these
\* are the words start_word..end_word-1 of the text, and end_word - start_word
\* is the number of words of the chunk's text.
C3_ChunksByWordCount ==
    SaneArgs =>
        \A i \in 1..Len(chunks) :
            LET c  == chunks[i]
                cw == Split(c.text)
            IN  /\ Len(cw) >= 1
                /\ Len(cw) <= max_tokens
                /\ c.end_word - c.start_word = Len(cw)
                /\ c.start_word >= 0
                /\ c.end_word <= Len(Split(text))
                /\ cw = SubSeq(Split(text), c.start_word + 1, c.end_word)

C3_Witness ==
    /\ ct_pc = "done"
    /\ SaneArgs
    /\ Len(chunks) >= 2
    /\ \E i \in 1..Len(chunks) : Len(Split(chunks[i].text)) = max_tokens
    /\ \E i \in 1..Len(chunks) : Len(Split(chunks[i].text)) < max_tokens

\* C4 (as claimed): every chunk has at most max_tokens tokens under the
\* tokenizer encoding.
C4_ChunksByTokenCount ==
    SaneArgs => \A i \in 1..Len(chunks) : EncodeLen(chunks[i].text) <= max_tokens

\* the loop of chunk_text ends for these arguments
Terminating == Len(Split(text)) = 0 \/ overlap < max_tokens

\* C10: chunk_text returns only if the text has no words or
\* overlap < max_tokens, and then it does return; otherwise start stays
\* below len(words) and the loop appends chunks without end (up to the
\* model's cap MaxChunks).
C10_TerminatesIff ==
    /\ [](ct_pc = "done" => Terminating)
    /\ [](ct_pc = "loop" /\ ~Terminating => start < Len(words))
    /\ ((ct_pc = "call" /\ Terminating) ~> (ct_pc = "done"))
    /\ ((ct_pc = "call" /\ ~Terminating) ~> (ct_pc = "loop" /\ Len(chunks) = MaxChunks))

C10_Witness ==
    /\ ct_pc = "loop"
    /\ ~Terminating
    /\ Len(chunks) = MaxChunks
    /\ start < Len(words)

\* word position p lies in [start_word, end_word) of chunk c
Covers(c, p) == c.start_word <= p /\ p < c.end_word

\* C11: for 0 <= overlap < max_tokens the start_word values of the chunks
\* built are strictly increasing, and every word position 0..W-1 of the text
\* lies in [start_word, end_word) of at least one chunk of the list returned.
C11_NoWordLost ==
    (0 <= overlap /\ overlap < max_tokens) =>
        /\ \A i \in 1..(Len(chunks) - 1) :
               chunks[i].start_word < chunks[i + 1].start_word
        /\ ct_pc = "done" =>
               \A p \in 0..(Len(Split(text)) - 1) :
                   \E i \in 1..Len(chunks) : Covers(chunks[i], p)

C11_Witness ==
    /\ ct_pc = "done"
    /\ 1 <= overlap /\ overlap < max_tokens
    /\ Len(chunks) >= 2
    /\ \E p \in 0..(Len(Split(text)) - 1) :
           Covers(chunks[1], p) /\ Covers(chunks[2], p)

\* C12 (as claimed, on the arguments chunk_text is written for): in the list
\* returned, end_word of a chunk minus start_word of the next one equals
\* overlap.
C12_ConsecutiveOverlap ==
    (ct_pc = "done" /\ SaneArgs) =>
        \A i \in 1..(Len(chunks) - 1) :
            chunks[i].end_word - chunks[i + 1].start_word = overlap

\* C13: for 0 <= overlap < max_tokens, with W words and
\* step = max_tokens - overlap, the list returned has ceil(W / step) chunks,
\* the i-th (from 0) with chunk_index i, start_word i*step, end_word
\* min(i*step + max_tokens, W) and the words start_word..end_word-1 joined by
\* single spaces as text; a text with no words returns the empty list.
C13_ExactChunks ==
    ct_pc = "done" =>
        LET W    == Len(Split(text))
            step == max_tokens - overlap
        IN  /\ W = 0 => chunks = <<>>
            /\ (0 <= overlap /\ overlap < max_tokens) =>
                   /\ Len(chunks) = (W + step - 1) \div step
                   /\ \A i \in 0..(Len(chunks) - 1) :
                          LET c == chunks[i + 1]
                          IN  /\ c.chunk_index = i
                              /\ c.start_word = i * step
                              /\ c.end_word = Min(i * step + max_tokens, W)
                              /\ c.text = Join(<<" ">>, SubSeq(Split(text),
                                                             c.start_word + 1, c.end_word))

C13_Witness ==
    /\ ct_pc = "done"
    /\ 1 <= overlap /\ overlap < max_tokens
    /\ Len(chunks) >= 2
    /\ Len(Split(text)) % (max_tokens - overlap) # 0
    /\ chunks[Len(chunks)].end_word - chunks[Len(chunks)].start_word < max_tokens

\* C14 (as claimed, on the arguments chunk_text is written for): every chunk
\* of the list returned after the first covers a word position that no
\* earlier chunk covers.
C14_EveryChunkAddsAWord ==
    (ct_pc = "done" /\ SaneArgs) =>
        \A i \in 2..Len(chunks) :
            \E p \in chunks[i].start_word..(chunks[i].end_word - 1) :
                \A j \in 1..(i - 1) : ~Covers(chunks[j], p)

\* a chunk fails C12 only where the chunk after it fails C14: the loop goes on
\* after a chunk has reached the last word
C12_FailsOnlyWithC14 ==
    (ct_pc = "done" /\ SaneArgs) =>
        \A i \in 1..(Len(chunks) - 1) :
            chunks[i].end_word - chunks[i + 1].start_word # overlap =>
                \A p \in chunks[i + 1].start_word..(chunks[i + 1].end_word - 1) :
                    Covers(chunks[i], p)

-----------------------------------------------------------------------------
(* Claims about the scripts *)

\* C7: scripts/publish uploads nothing on any path and leaves ./dist as it
\* is; when dist is a directory its standard output is the banner, the twine
\* command line (echoed, with dist/* expanded) and the not-yet-supported
\* message, then a blank line; when there is no dist directory it is the
\* banner, the run-build-first message and a blank line.
C7_PublishDisabled ==
    script = "publish" =>
        /\ uploaded = {}
        /\ environment_yml = [exists |-> FALSE, lines |-> <<>>]
        /\ (sh_pc = "done" =>
                stdout =
                    IF dist = "dir"
                    THEN <<Banner("publish"),
                           <<Word("twine"), Word("upload")>> \o GlobDist(dist, dist_files),
                           NotYetLine,
                           <<>> >>
                    ELSE <<Banner("publish"), NoDistLine, <<>> >>)

C7_Witness ==
    /\ script = "publish"
    /\ sh_pc = "done"
    /\ dist = "dir"
    /\ Cardinality(dist_files) = 3
    /\ Len(stdout) = 4
    /\ Len(stdout[2]) = 4

\* a line of the export that the update script is to keep
KeptLine(l) ==
    /\ ~(Len(l) >= 5 /\ SubSeq(l, 1, 5) = <<"n", "a", "m", "e", ":">>)
    /\ ~(Len(l) >= 7 /\ SubSeq(l, 1, 7) = <<"p", "r", "e", "f", "i", "x", ":">>)

\* C8: after scripts/update ran with a working conda, environment.yml holds
\* exactly the lines of the export that start neither with 'name:' nor with
\* 'prefix:', in their order; no other line is dropped.
C8_UpdateKeepsOtherLines ==
    (script = "update" /\ sh_pc \in {"set+x", "echo2", "done"} /\ conda_ok) =>
        /\ environment_yml.exists
        /\ environment_yml.lines = SelectSeq(conda_export, KeptLine)
        /\ \A l \in ExportLines :
               KeptLine(l) =>
                   Cardinality({i \in 1..Len(environment_yml.lines) : environment_yml.lines[i] = l})
                   = Cardinality({i \in 1..Len(conda_export) : conda_export[i] = l})

C8_Witness ==
    /\ script = "update"
    /\ sh_pc = "done"
    /\ conda_ok
    /\ conda_export = <<<<"n", "a", "m", "e", ":", " ", "l">>, <<" ", "n", "a", "m", "e", ":", " ", "x">>, <<"p", "r", "e", "f", "i", "x", ":", " ", "/", "c">>>>
    /\ environment_yml.lines = <<<<" ", "n", "a", "m", "e", ":", " ", "x">>>>



-----------------------------------------------------------------------------
(* Claims about try_parse_json and extract_scenes_from_text *)

\* what the claim says try_parse_json(output) returns: the value of the whole
\* string when it is valid JSON, else the value of the part from the first
\* "{" to the last "}" when there is one and it is valid JSON, else None
ClaimedParse ==
    LET opens  == {i \in 1..Len(output) : output[i] = "{"}
        closes == {i \in 1..Len(output) : output[i] = "}"}
        first  == CHOOSE i \in opens : \A j \in opens : i <= j
        last   == CHOOSE i \in closes : \A j \in closes : j <= i
    IN  IF JsonLoads(output).ok THEN JsonLoads(output).val
        ELSE IF opens # {} /\ closes # {} /\ first <= last
                /\ JsonLoads(SubSeq(output, first, last)).ok
        THEN JsonLoads(SubSeq(output, first, last)).val
        ELSE PyNone

\* C15 (as claimed): a call of try_parse_json never raises, and returns the
\* value of the whole string, else of the part from the first "{" to the last
\* "}", else None.
C15_TryParseJsonTotal ==
    (scene_entry = "try_parse_json" /\ scene_pc # "call") =>
        /\ scene_pc = "returned"
        /\ scene_result = [exc |-> "", val |-> ClaimedParse]

\* what holds of try_parse_json: a call that returns returns the claimed
\* value, and a call raises only what the first json.loads raised that is not
\* a JSONDecodeError
TryParseJsonValue ==
    scene_entry = "try_parse_json" =>
        /\ scene_pc = "returned" => scene_result = [exc |-> "", val |-> ClaimedParse]
        /\ scene_pc = "raised" =>
               /\ JsonLoads(output).err \in {"RecursionError", "ValueError"}
               /\ scene_result.exc = JsonLoads(output).err

\* C16: extract_scenes_from_text does not catch a failure of the model call.
\* When the call for chunk k raises, that call is the last one made (no chunk
\* after k is sent), the function ends by raising that exception and returns
\* no list; and whatever exception ends the function while it processes chunk
\* k, the chunks sent are exactly chunks 0..k and the scenes collected so far
\* are not returned.
C16_FailurePropagates ==
    scene_entry = "extract_scenes_from_text" =>
        /\ \A i \in 1..Len(api_calls) :
               api_calls[i].outcome.raises =>
                   /\ i = Len(api_calls)
                   /\ scene_pc = "raised"
                   /\ scene_result = [exc |-> api_calls[i].outcome.exc, val |-> PyNone]
        /\ scene_pc = "raised" =>
               /\ scene_result.exc # ""
               /\ scene_result.val = PyNone
               /\ Len(api_calls) = chunk_no + 1
               /\ \A i \in 1..Len(api_calls) :
                      api_calls[i].messages = BuildPrompt(scene_chunks[i].text)

C16_Witness ==
    /\ scene_entry = "extract_scenes_from_text"
    /\ scene_pc = "raised"
    /\ chunk_no >= 1
    /\ api_calls[chunk_no + 1].outcome.raises
    /\ all_scenes # <<>>
    /\ Len(scene_chunks) > chunk_no + 1

=============================================================================
